---- MODULE Spec2Model ----
(***************************************************************************)
(* File upload service (backend/main.py, models.py, database.py).          *)
(*                                                                         *)
(* State: the upload directory (disk), the committed rows of the "files"   *)
(* table (store), the wall clock, and for every request in flight its      *)
(* program position, its locals and its store session.  Each statement of  *)
(* upload_document / get_files that touches the disk, the store or the     *)
(* session is one action; a statement that can raise has one disjunct per  *)
(* outcome.  Requests may be served by several workers over the same       *)
(* directory and database file, so statements of different requests        *)
(* interleave.                                                             *)
(***************************************************************************)
EXTENDS Integers, Sequences, FiniteSets, TLC

\* ---------------------------------------------------------------- bounds
NumReqs == 2
MaxUploads == 2
MaxClock == 1

Reqs == 1..NumReqs
Clock == 0..MaxClock
Tokens == 1..MaxUploads

\* ------------------------------------------------------- program constants
MAX_FILE_SIZE == 50 * 1024 * 1024

\* ------------------------------------------------------------------ inputs
\* A filename is a sequence of characters; <<>> is the missing filename.
Filenames == { <<>>, <<"a", ".", "p">> }

\* A payload is its bytes (an opaque tag) and its length.
Payloads ==
    { [data |-> "x", len |-> 0],
      [data |-> "x", len |-> 2],
      [data |-> "y", len |-> MAX_FILE_SIZE],
      [data |-> "x", len |-> MAX_FILE_SIZE + 1] }

NoContent == [data |-> "", len |-> -1]
NoName == [uuid |-> 0, ext |-> <<>>]
NoFile ==
    [id |-> 0, original_filename |-> <<>>, system_filename |-> NoName,
     file_size_bytes |-> -1, uploaded_at |-> -1]
NoResp ==
    [status |-> 0, exc |-> "none", detail |-> "", file_id |-> 0,
     files |-> <<>>, count |-> 0]
NoReq == [kind |-> "none", filename |-> <<>>]

VARIABLES
    pc,               \* position of each request
    req,              \* the request's input: kind, filename
    sess,             \* the session get_db handed out: none / open / closed
    closes,           \* how many times db.close() ran for the request
    content,          \* local: content
    system_filename,  \* local: system_filename (file_path = UPLOAD_DIR / it)
    new_file,         \* local: new_file, the ORM object
    failed,           \* the statement whose exception the handler is handling
    fault,            \* some statement of the request failed for an outside reason
    raced,            \* the request committed while another upload sat between write and commit
    resp,             \* what leaves the handler: a response or an exception
    disk,             \* UPLOAD_DIR: storage name -> file content
    store,            \* committed rows of table files
    used              \* uuid4 values generated so far

vars ==
    << pc, req, sess, closes, content, system_filename, new_file, failed,
       fault, raced, resp, disk, store, used >>

\* ----------------------------------------------------------------- helpers
Max(S) == CHOOSE x \in S : \A y \in S : y <= x

\* str.rfind: the last index of c in s, 0 when absent (1-based).
RFind(s, c) ==
    LET I == { i \in 1..Len(s) : s[i] = c }
    IN  IF I = {} THEN 0 ELSE Max(I)

\* Path(filename).suffix: from the last "." on, unless the name starts or
\* ends with that ".".
Suffix(name) ==
    LET i == RFind(name, ".")
    IN  IF 1 < i /\ i < Len(name) THEN SubSeq(name, i, Len(name)) ELSE <<>>

SystemFilenameFromOriginal(unique_id, filename) ==
    [uuid |-> 0, ext |-> filename]

\* f"{unique_id}{file_extension}": the uuid has a fixed width, so the string
\* is determined by, and determines, the pair.
SystemFilename(unique_id, filename) ==
    [uuid |-> unique_id, ext |-> Suffix(filename)]

NewFileSizeZero(filename, name, data) ==
    [id |-> 0, original_filename |-> filename, system_filename |-> name,
     file_size_bytes |-> 0, uploaded_at |-> -1]

\* models.File(original_filename=..., system_filename=..., file_size_bytes=len(content))
NewFile(filename, name, data) ==
    [id |-> 0, original_filename |-> filename, system_filename |-> name,
     file_size_bytes |-> data.len, uploaded_at |-> -1]

\* autoincrement primary key: one more than the largest id in the table
NextId == IF store = {} THEN 1 ELSE Max({ rec.id : rec \in store }) + 1

\* unique=True on system_filename
UniqueViolation(name) == \E rec \in store : rec.system_filename = name

Exists(name) == name \in DOMAIN disk

WriteDisk(name, data) ==
    [n \in (DOMAIN disk) \cup {name} |-> IF n = name THEN data ELSE disk[n]]

Unlink(name) == [n \in (DOMAIN disk) \ {name} |-> disk[n]]

\* what open(..., "wb") and a failed f.write leave behind: a proper prefix
PartialLens(n) == { n \div 2 }

OrderedAsc(s) ==
    \A i \in 1..(Len(s) - 1) : s[i].uploaded_at <= s[i + 1].uploaded_at

\* order_by(File.uploaded_at.desc())
OrderedDesc(s) ==
    \A i \in 1..(Len(s) - 1) : s[i].uploaded_at >= s[i + 1].uploaded_at

\* .all(): every row of the table, once each
AllRows(s) ==
    /\ Len(s) = Cardinality(store)
    /\ { s[i] : i \in 1..Len(s) } = store

HTTPException(code, text) ==
    [status |-> code, exc |-> "HTTPException", detail |-> text, file_id |-> 0,
     files |-> <<>>, count |-> 0]

\* an exception that leaves the handler: the server answers 500 itself
Unhandled(kind) ==
    [status |-> 500, exc |-> kind, detail |-> "", file_id |-> 0,
     files |-> <<>>, count |-> 0]

SessionLeakOnError(r) == IF resp[r].exc = "none" THEN "closed" ELSE "open"

\* get_db: try: yield db  finally: db.close()
SessionAfterExit(r) == "closed"

\* -------------------------------------------------------------------- Init
Init ==
    /\ pc = [r \in Reqs |-> "idle"]
    /\ req = [r \in Reqs |-> NoReq]
    /\ sess = [r \in Reqs |-> "none"]
    /\ closes = [r \in Reqs |-> 0]
    /\ content = [r \in Reqs |-> NoContent]
    /\ system_filename = [r \in Reqs |-> NoName]
    /\ new_file = [r \in Reqs |-> NoFile]
    /\ failed = [r \in Reqs |-> "none"]
    /\ fault = [r \in Reqs |-> FALSE]
    /\ raced = [r \in Reqs |-> FALSE]
    /\ resp = [r \in Reqs |-> NoResp]
    /\ disk = [n \in {} |-> NoContent]
    /\ store = {}
    /\ used = {}

\* ----------------------------------------------------------------- actions
\* uploads in flight that have not drawn their uuid yet
Unnamed ==
    { q \in Reqs : req[q].kind = "upload" /\
                   pc[q] \in {"get_db", "check_filename", "read", "check_size", "name"} }

\* A request arrives: POST /upload-document with a file part, or GET /files.
\* Every upload may come to draw a uuid, and the model has MaxUploads of them.
Request(r) ==
    /\ pc[r] = "idle"
    /\ \/ /\ Cardinality(used) + Cardinality(Unnamed) < MaxUploads
          /\ \E fn \in Filenames :
                req' = [req EXCEPT ![r] = [kind |-> "upload", filename |-> fn]]
       \/ req' = [req EXCEPT ![r] = [kind |-> "list", filename |-> <<>>]]
    /\ pc' = [pc EXCEPT ![r] = "get_db"]
    /\ sess' = [sess EXCEPT ![r] = "none"]
    /\ closes' = [closes EXCEPT ![r] = 0]
    /\ UNCHANGED << content, system_filename, new_file, failed,
                    fault, raced, resp, disk, store, used >>

\* get_db up to its yield: db = database.SessionLocal()
GetDbOpen(r) ==
    /\ pc[r] = "get_db"
    /\ sess' = [sess EXCEPT ![r] = "open"]
    /\ pc' = [pc EXCEPT ![r] =
                IF req[r].kind = "upload" THEN "check_filename" ELSE "query"]
    /\ UNCHANGED << req, closes, content, system_filename, new_file, failed,
                    fault, raced, resp, disk, store, used >>

\* if not file.filename: raise HTTPException(400)   (before the try block)
CheckFilename(r) ==
    /\ pc[r] = "check_filename"
    /\ \/ /\ req[r].filename = <<>>
          /\ resp' = [resp EXCEPT ![r] = HTTPException(400, "No filename provided")]
          /\ pc' = [pc EXCEPT ![r] = "exit"]
       \/ /\ req[r].filename # <<>>
          /\ pc' = [pc EXCEPT ![r] = "read"]
          /\ UNCHANGED resp
    /\ UNCHANGED << req, sess, closes, content, system_filename, new_file,
                    failed, fault, raced, disk, store, used >>

\* content = await file.read()
ReadContent(r) ==
    /\ pc[r] = "read"
    /\ \/ /\ \E p \in Payloads : content' = [content EXCEPT ![r] = p]
          /\ pc' = [pc EXCEPT ![r] = "check_size"]
          /\ UNCHANGED << failed, fault >>
       \/ /\ failed' = [failed EXCEPT ![r] = "read"]
          /\ fault' = [fault EXCEPT ![r] = TRUE]
          /\ pc' = [pc EXCEPT ![r] = "except_exception"]
          /\ UNCHANGED content
    /\ UNCHANGED << req, sess, closes, system_filename, new_file, raced, resp,
                    disk, store, used >>

\* the two size checks; each raises HTTPException(400) inside the try block,
\* where "except Exception" catches it (HTTPException is no SQLAlchemyError)
CheckSize(r) ==
    /\ pc[r] = "check_size"
    /\ \/ /\ content[r].len > MAX_FILE_SIZE
          /\ failed' = [failed EXCEPT ![r] = "too_large"]
          /\ pc' = [pc EXCEPT ![r] = "except_exception"]
       \/ /\ content[r].len = 0
          /\ failed' = [failed EXCEPT ![r] = "empty"]
          /\ pc' = [pc EXCEPT ![r] = "except_exception"]
       \/ /\ content[r].len > 0
          /\ content[r].len <= MAX_FILE_SIZE
          /\ pc' = [pc EXCEPT ![r] = "name"]
          /\ UNCHANGED failed
    /\ UNCHANGED << req, sess, closes, content, system_filename, new_file,
                    fault, raced, resp, disk, store, used >>

\* unique_id = uuid.uuid4(); system_filename = f"{unique_id}{file_extension}"
\* pool: the values uuid4 can return.
GenerateNameFrom(r, pool) ==
    /\ pc[r] = "name"
    /\ \E u \in pool :
          /\ system_filename' = [system_filename EXCEPT ![r] =
                                    SystemFilename(u, req[r].filename)]
          /\ used' = used \cup {u}
    /\ pc' = [pc EXCEPT ![r] = "write"]
    /\ UNCHANGED << req, sess, closes, content, new_file, failed, fault, raced,
                    resp, disk, store >>

\* uuid4 as documented: a value never returned before
GenerateName(r) == GenerateNameFrom(r, Tokens \ used)

\* uuid4 returning any value, one returned before included
GenerateNameAny(r) == GenerateNameFrom(r, Tokens)

\* with open(file_path, "wb") as f: f.write(content)
WriteFile(r) ==
    /\ pc[r] = "write"
    /\ \/ /\ disk' = WriteDisk(system_filename[r], content[r])
          /\ pc' = [pc EXCEPT ![r] = "add"]
          /\ UNCHANGED << failed, fault >>
       \/ \* open raises OSError: nothing is created or truncated
          /\ failed' = [failed EXCEPT ![r] = "open"]
          /\ fault' = [fault EXCEPT ![r] = TRUE]
          /\ pc' = [pc EXCEPT ![r] = "except_exception"]
          /\ UNCHANGED disk
       \/ \* f.write raises OSError: the file exists and holds a prefix
          /\ \E k \in PartialLens(content[r].len) :
                disk' = WriteDisk(system_filename[r],
                                  [data |-> content[r].data, len |-> k])
          /\ failed' = [failed EXCEPT ![r] = "write"]
          /\ fault' = [fault EXCEPT ![r] = TRUE]
          /\ pc' = [pc EXCEPT ![r] = "except_exception"]
    /\ UNCHANGED << req, sess, closes, content, system_filename, new_file,
                    raced, resp, store, used >>

\* new_file = models.File(...); db.add(new_file)
DbAdd(r) ==
    /\ pc[r] = "add"
    /\ \/ /\ new_file' = [new_file EXCEPT ![r] =
                            NewFile(req[r].filename, system_filename[r], content[r])]
          /\ pc' = [pc EXCEPT ![r] = "commit"]
          /\ UNCHANGED << failed, fault >>
       \/ /\ failed' = [failed EXCEPT ![r] = "add"]
          /\ fault' = [fault EXCEPT ![r] = TRUE]
          /\ pc' = [pc EXCEPT ![r] = "except_sqlalchemy"]
          /\ UNCHANGED new_file
    /\ UNCHANGED << req, sess, closes, content, system_filename, raced, resp,
                    disk, store, used >>

\* db.commit(): the INSERT assigns id and uploaded_at (default=datetime.utcnow,
\* a wall clock: any reading) and checks uniqueness
DbCommit(r) ==
    /\ pc[r] = "commit"
    /\ \/ /\ ~UniqueViolation(new_file[r].system_filename)
          /\ \E t \in Clock :
                LET row == [new_file[r] EXCEPT !.id = NextId, !.uploaded_at = t]
                IN  /\ store' = store \cup {row}
                    /\ new_file' = [new_file EXCEPT ![r] = row]
          /\ raced' = [raced EXCEPT ![r] =
                         \E q \in Reqs \ {r} : pc[q] \in {"add", "commit"}]
          /\ pc' = [pc EXCEPT ![r] = "refresh"]
          /\ UNCHANGED << failed, fault >>
       \/ \* IntegrityError
          /\ UniqueViolation(new_file[r].system_filename)
          /\ failed' = [failed EXCEPT ![r] = "commit"]
          /\ pc' = [pc EXCEPT ![r] = "except_sqlalchemy"]
          /\ UNCHANGED << store, new_file, raced, fault >>
       \/ \* OperationalError: store locked or unreachable
          /\ failed' = [failed EXCEPT ![r] = "commit"]
          /\ fault' = [fault EXCEPT ![r] = TRUE]
          /\ pc' = [pc EXCEPT ![r] = "except_sqlalchemy"]
          /\ UNCHANGED << store, new_file, raced >>
    /\ UNCHANGED << req, sess, closes, content, system_filename, resp, disk, used >>

\* db.refresh(new_file)
DbRefresh(r) ==
    /\ pc[r] = "refresh"
    /\ \/ /\ pc' = [pc EXCEPT ![r] = "return"]
          /\ UNCHANGED << failed, fault >>
       \/ /\ failed' = [failed EXCEPT ![r] = "refresh"]
          /\ fault' = [fault EXCEPT ![r] = TRUE]
          /\ pc' = [pc EXCEPT ![r] = "except_sqlalchemy"]
    /\ UNCHANGED << req, sess, closes, content, system_filename, new_file,
                    raced, resp, disk, store, used >>

\* return schemas.FileUploadResponse(..., file_id=new_file.id)   (201)
ReturnCreated(r) ==
    /\ pc[r] = "return"
    /\ resp' = [resp EXCEPT ![r] =
                  [status |-> 201, exc |-> "none",
                   detail |-> "File uploaded successfully",
                   file_id |-> new_file[r].id, files |-> <<>>, count |-> 0]]
    /\ pc' = [pc EXCEPT ![r] = "exit"]
    /\ UNCHANGED << req, sess, closes, content, system_filename, new_file,
                    failed, fault, raced, disk, store, used >>

\* except SQLAlchemyError: db.rollback()
SqlRollback(r) ==
    /\ pc[r] = "except_sqlalchemy"
    /\ \/ /\ pc' = [pc EXCEPT ![r] = "cleanup"]
          /\ UNCHANGED << resp, fault >>
       \/ \* rollback raises inside the except block: nothing catches it
          /\ resp' = [resp EXCEPT ![r] = Unhandled("SQLAlchemyError")]
          /\ fault' = [fault EXCEPT ![r] = TRUE]
          /\ pc' = [pc EXCEPT ![r] = "exit"]
    /\ UNCHANGED << req, sess, closes, content, system_filename, new_file,
                    failed, raced, disk, store, used >>

\* if file_path.exists(): file_path.unlink(); raise HTTPException(500)
SqlCleanup(r) ==
    /\ pc[r] = "cleanup"
    /\ \/ /\ Exists(system_filename[r])
          /\ disk' = Unlink(system_filename[r])
          /\ resp' = [resp EXCEPT ![r] = HTTPException(500, "Database error")]
          /\ UNCHANGED fault
       \/ \* unlink raises OSError inside the except block
          /\ Exists(system_filename[r])
          /\ resp' = [resp EXCEPT ![r] = Unhandled("OSError")]
          /\ fault' = [fault EXCEPT ![r] = TRUE]
          /\ UNCHANGED disk
       \/ /\ ~Exists(system_filename[r])
          /\ resp' = [resp EXCEPT ![r] = HTTPException(500, "Database error")]
          /\ UNCHANGED << disk, fault >>
    /\ pc' = [pc EXCEPT ![r] = "exit"]
    /\ UNCHANGED << req, sess, closes, content, system_filename, new_file,
                    failed, raced, store, used >>

\* except Exception: db.rollback(); raise HTTPException(500)
ExceptException(r) ==
    /\ pc[r] = "except_exception"
    /\ \/ /\ resp' = [resp EXCEPT ![r] = HTTPException(500, "Error uploading file")]
          /\ UNCHANGED fault
       \/ /\ resp' = [resp EXCEPT ![r] = Unhandled("SQLAlchemyError")]
          /\ fault' = [fault EXCEPT ![r] = TRUE]
    /\ pc' = [pc EXCEPT ![r] = "exit"]
    /\ UNCHANGED << req, sess, closes, content, system_filename, new_file,
                    failed, raced, disk, store, used >>

\* get_files: the query, the conversion and the response, or an except branch
GetFiles(r) ==
    /\ pc[r] = "query"
    /\ \/ \E n \in 0..Cardinality(store) :
            \E files \in [1..n -> store] :
                /\ AllRows(files)
                /\ OrderedDesc(files)
                /\ resp' = [resp EXCEPT ![r] =
                              [status |-> 200, exc |-> "none", detail |-> "",
                               file_id |-> 0, files |-> files,
                               count |-> Len(files)]]
                /\ UNCHANGED << failed, fault >>
       \/ \* the query raises SQLAlchemyError
          /\ resp' = [resp EXCEPT ![r] = HTTPException(500, "Database error")]
          /\ failed' = [failed EXCEPT ![r] = "query"]
          /\ fault' = [fault EXCEPT ![r] = TRUE]
       \/ \* the conversion raises: except Exception
          /\ resp' = [resp EXCEPT ![r] = HTTPException(500, "Error retrieving files")]
          /\ failed' = [failed EXCEPT ![r] = "from_orm"]
          /\ fault' = [fault EXCEPT ![r] = TRUE]
    /\ pc' = [pc EXCEPT ![r] = "exit"]
    /\ UNCHANGED << req, sess, closes, content, system_filename, new_file,
                    raced, disk, store, used >>

\* get_db after its yield: finally: db.close().  The response is sent and the
\* request's locals are gone.
GetDbClose(r) ==
    /\ pc[r] = "exit"
    /\ sess' = [sess EXCEPT ![r] = SessionAfterExit(r)]
    /\ closes' = [closes EXCEPT ![r] =
                    IF SessionAfterExit(r) = "closed" THEN closes[r] + 1
                    ELSE closes[r]]
    /\ pc' = [pc EXCEPT ![r] = "idle"]
    /\ req' = [req EXCEPT ![r] = NoReq]
    /\ content' = [content EXCEPT ![r] = NoContent]
    /\ system_filename' = [system_filename EXCEPT ![r] = NoName]
    /\ new_file' = [new_file EXCEPT ![r] = NoFile]
    /\ failed' = [failed EXCEPT ![r] = "none"]
    /\ fault' = [fault EXCEPT ![r] = FALSE]
    /\ raced' = [raced EXCEPT ![r] = FALSE]
    /\ resp' = [resp EXCEPT ![r] = NoResp]
    /\ UNCHANGED << disk, store, used >>

\* one statement of request r, other than the name generation
Step(r) ==
    \/ GetDbOpen(r)
    \/ CheckFilename(r)
    \/ ReadContent(r)
    \/ CheckSize(r)
    \/ WriteFile(r)
    \/ DbAdd(r)
    \/ DbCommit(r)
    \/ DbRefresh(r)
    \/ ReturnCreated(r)
    \/ SqlRollback(r)
    \/ SqlCleanup(r)
    \/ ExceptException(r)
    \/ GetFiles(r)
    \/ GetDbClose(r)

Next ==
    \/ \E r \in Reqs : Request(r)
    \/ \E r \in Reqs : Step(r)
    \/ \E r \in Reqs : GenerateName(r)

NextCollide ==
    \/ \E r \in Reqs : Request(r)
    \/ \E r \in Reqs : Step(r)
    \/ \E r \in Reqs : GenerateNameAny(r)

Spec == Init /\ [][Next]_vars

\* uuid4 may repeat a value
SpecCollide == Init /\ [][NextCollide]_vars

\* the server runs every accepted request to its end
FairSpec ==
    /\ Init
    /\ [][Next]_vars
    /\ \A r \in Reqs : WF_vars(Step(r) \/ GenerateName(r))

\* ------------------------------------------------------------------ claims
\* the handler of r has returned or raised; get_db has not closed yet
Returned(r) == pc[r] = "exit"

Upload(r) == req[r].kind = "upload"

Quiescent == \A r \in Reqs : pc[r] = "idle"

Rows(s) == { s[i] : i \in 1..Len(s) }

\* C1: an upload with a filename whose payload is empty or longer than
\* MAX_FILE_SIZE is answered 400 and creates neither a file nor a record.
C1_Rejected400 ==
    \A r \in Reqs :
        ( /\ Returned(r) /\ Upload(r)
          /\ req[r].filename # <<>>
          /\ content[r] # NoContent
          /\ (content[r].len = 0 \/ content[r].len > MAX_FILE_SIZE) )
        => /\ resp[r].status = 400
           /\ system_filename[r] = NoName
           /\ new_file[r] = NoFile

\* C2: every record of the store has its file on disk, fully written.
C2_RecordHasFile ==
    \A rec \in store :
        /\ rec.system_filename \in DOMAIN disk
        /\ disk[rec.system_filename].len = rec.file_size_bytes

\* the state and the step parts of C3
C3_State ==
    \A r \in Reqs :
        resp[r].status = 201 =>
            /\ system_filename[r] \in DOMAIN disk
            /\ disk[system_filename[r]].len = content[r].len
            /\ disk[system_filename[r]].data = content[r].data
            /\ Cardinality({ rec \in store : rec.id = resp[r].file_id }) = 1
            /\ \A rec \in store :
                  rec.id = resp[r].file_id =>
                      /\ rec.file_size_bytes = content[r].len
                      /\ rec.system_filename = system_filename[r]

C3_Step ==
    \A r \in Reqs :
        (pc'[r] # pc[r] /\ (Upload(r) \/ req'[r].kind = "upload")) =>
            IF pc[r] = "commit" /\ pc'[r] = "refresh"
            THEN Cardinality(store') = Cardinality(store) + 1
            ELSE store' = store

\* C3: when an upload returns 201, the file named by its record is on disk
\* with the payload's bytes, exactly one record carries the returned file_id,
\* that record has the payload's length, and the upload added one record:
\* its commit added exactly one, its other statements none.
C3_Created == []C3_State /\ [][C3_Step]_vars

C3_Witness ==
    \E r \in Reqs :
        /\ Returned(r) /\ resp[r].status = 201
        /\ content[r].len = MAX_FILE_SIZE
        /\ Cardinality(store) = 2

\* C4: when add or commit fails after the file was written, the file is
\* gone when the handler ends and the answer is 500.
C4_InsertFailureCompensated ==
    \A r \in Reqs :
        (Returned(r) /\ failed[r] \in {"add", "commit"}) =>
            /\ system_filename[r] \notin DOMAIN disk
            /\ resp[r].status = 500

\* C5: with no request in progress, the names of the records are exactly
\* the names of the files in the upload directory.
C5_RecordIffFile ==
    Quiescent => { rec.system_filename : rec \in store } = DOMAIN disk

\* the pair C6 is about, and what each upload of it must have produced
C6_Pair(r1, r2) ==
    /\ r1 # r2
    /\ Returned(r1) /\ Returned(r2)
    /\ Upload(r1) /\ Upload(r2)
    /\ req[r1].filename = req[r2].filename
    /\ req[r1].filename # <<>>
    /\ content[r1].len \in 1..MAX_FILE_SIZE
    /\ content[r2].len \in 1..MAX_FILE_SIZE
    /\ ~fault[r1] /\ ~fault[r2]

C6_Mine(r) ==
    /\ resp[r].status = 201
    /\ system_filename[r] \in DOMAIN disk
    /\ disk[system_filename[r]] = content[r]
    /\ \E rec \in store :
          /\ rec.id = resp[r].file_id
          /\ rec.system_filename = system_filename[r]
          /\ rec.original_filename = req[r].filename

\* C6: two overlapping uploads with the same original filename, no
\* statement of which fails for an outside reason, both return 201 with
\* distinct storage names, each file holding its own upload's bytes, and
\* distinct records.
C6_ConcurrentSameName ==
    \A r1, r2 \in Reqs :
        C6_Pair(r1, r2) =>
            /\ C6_Mine(r1) /\ C6_Mine(r2)
            /\ system_filename[r1] # system_filename[r2]
            /\ resp[r1].file_id # resp[r2].file_id

C6_Witness ==
    \E r1, r2 \in Reqs :
        /\ C6_Pair(r1, r2)
        /\ raced[r1]
        /\ content[r1] # content[r2]

\* C7: whatever fails, what leaves the handler is an HTTPException with a
\* status code and a detail string.
C7_OnlyHTTPException ==
    \A r \in Reqs :
        (Returned(r) /\ resp[r].status \notin {200, 201}) =>
            /\ resp[r].exc = "HTTPException"
            /\ resp[r].status \in {400, 500}
            /\ resp[r].detail # ""

\* one statement of a listing request
C8_Step ==
    \A r \in Reqs :
        (pc'[r] # pc[r] /\ (req[r].kind = "list" \/ req'[r].kind = "list")) =>
            /\ store' = store
            /\ disk' = disk
            /\ resp'[r].status = 200 =>
                  LET fs == resp'[r].files
                  IN  /\ Rows(fs) = store
                      /\ Len(fs) = Cardinality(store)
                      /\ resp'[r].count = Len(fs)
                      /\ \A i, j \in 1..Len(fs) :
                            i < j => fs[i].uploaded_at >= fs[j].uploaded_at

\* C8: a successful GET /files returns every committed record once, newest
\* uploaded_at first (non-increasing), with count the length of files; and
\* no statement of a listing request changes the store or the directory.
C8_Listing == [][C8_Step]_vars

C8_Witness ==
    \E r \in Reqs :
        /\ Returned(r) /\ resp[r].status = 200
        /\ resp[r].count = 2
        /\ resp[r].files[1].uploaded_at > resp[r].files[2].uploaded_at
        /\ resp[r].files[1].id < resp[r].files[2].id

\* the step that ends a request
C9_Step ==
    \A r \in Reqs :
        (pc[r] = "exit" /\ pc'[r] # "exit") =>
            /\ sess[r] = "open"
            /\ sess'[r] = "closed"
            /\ closes'[r] = 1

\* C9: a request that got a session from get_db has it closed, exactly once,
\* when it completes, whatever the handler returned or raised.
C9_SessionClosed ==
    /\ [][C9_Step]_vars
    /\ \A r \in Reqs :
          /\ [](closes[r] <= 1)
          /\ (sess[r] = "open") ~> (sess[r] = "closed" /\ closes[r] = 1)

C9_Witness ==
    \E r1, r2 \in Reqs :
        /\ pc[r1] = "idle" /\ sess[r1] = "closed" /\ closes[r1] = 1
        /\ Returned(r2) /\ sess[r2] = "open" /\ resp[r2].exc = "HTTPException"

\* one statement of an upload, seen from the other requests' records
C10_Step ==
    \A r \in Reqs :
        (pc'[r] # pc[r] /\ Upload(r)) =>
            \A rec \in store :
                (rec.id # new_file[r].id /\ rec.system_filename \in DOMAIN disk) =>
                    /\ rec.system_filename \in DOMAIN disk'
                    /\ disk'[rec.system_filename] = disk[rec.system_filename]

\* C10: no statement of an upload changes or removes the file of a record
\* that another request committed.
C10_OthersFilesUntouched == [][C10_Step]_vars

====
